---- MODULE Spec2Model ----
(***************************************************************************)
(* Appointment scheduling of the hospital management system: the stored    *)
(* Appointment, DoctorLeaveRequest and DoctorAvailability rows, the views   *)
(* that change them, and the slot lookup get_available_slots.               *)
(*                                                                          *)
(* Times of day are minutes since midnight (datetime.time(8, 0) is 480),    *)
(* dates are day numbers, and date.weekday() is the day number modulo 7.    *)
(* `response` is the response of the last request served; `loop` is the     *)
(* state of one run of a slot generation loop; `saving` holds, for each     *)
(* request process, the appointment it has validated and not yet written.  *)
(*                                                                          *)
(* `beds` is Bed.is_occupied of every bed, `admissions` and                 *)
(* `admission_requests` are the PatientAdmission and AdmissionRequest rows, *)
(* `user_is_available` is User.is_available of every doctor, `purchases`   *)
(* are the Purchase rows with their items and `stock_quantity` is           *)
(* MedicineItem.stock_quantity of every medicine.                           *)
(***************************************************************************)
EXTENDS Integers, Sequences, FiniteSets, TLC

VARIABLES appointments, leave_requests, availability, response, loop, saving,
          beds, admissions, admission_requests, user_is_available,
          purchases, stock_quantity

\* the rows of src/patient and src/pharmacy
patient_vars == <<beds, admissions, admission_requests, user_is_available>>
pharmacy_vars == <<purchases, stock_quantity>>

vars == <<appointments, leave_requests, availability, response, loop, saving, patient_vars, pharmacy_vars>>

(***************************************************************************)
(* Bounds of the model                                                      *)
(***************************************************************************)
MaxAppointments == 2
MaxLeaves == 2
MaxAvailability == 2
\* rows stored in the three tables together
MaxRows == 2
\* requests served at the same time
MaxProcesses == 2
MaxRequests == 2
MaxAdmissions == 3
MaxPurchases == 2
\* items of one purchase order
MaxItems == 2

Doctors == {1, 2}
Patients == {1, 2}
Dates == {1, 2}

Time(hour, minute) == hour * 60 + minute

(***************************************************************************)
(* Model constants of src/appointment/models.py                             *)
(***************************************************************************)
SCHEDULED == "SCHEDULED"
CONFIRMED == "CONFIRMED"
COMPLETED == "COMPLETED"
CANCELLED == "CANCELLED"
MISSED == "MISSED"
STATUS_CHOICES == {SCHEDULED, CONFIRMED, COMPLETED, CANCELLED, MISSED}

REGULAR == "REGULAR"
FOLLOW_UP == "FOLLOW_UP"
EMERGENCY == "EMERGENCY"

PENDING == "PENDING"
APPROVED == "APPROVED"
REJECTED == "REJECTED"

weekday(date) == date % 7

\* strict interval overlap, as written at every comparison of the source
Overlaps(start1, end1, start2, end2) == start1 < end2 /\ end1 > start2

ActiveStatuses == {SCHEDULED, CONFIRMED}

Rows == Len(appointments) + Len(leave_requests) + Cardinality(availability)

(***************************************************************************)
(* Appointment.clean: TRUE when no ValidationError is raised for `self`,    *)
(* whose primary key is `id` (0 for an unsaved row).                        *)
(***************************************************************************)
standard_start == Time(8, 0)
standard_end == Time(22, 0)

\* as AppointmentTimesValid, with the comparison of the times left out
AppointmentTimesAny(self) == TRUE

AppointmentTimesValid(self) == ~(self.start_time >= self.end_time)

\* as AppointmentLeaveOk, with the approved leave not looked at
AppointmentLeaveIgnored(self) == TRUE

AppointmentLeaveOk(self) ==
    LET is_emergency == self.appointment_type = EMERGENCY \/ self.is_emergency
        leaves == {i \in DOMAIN leave_requests :
                      /\ leave_requests[i].doctor = self.doctor
                      /\ leave_requests[i].status = APPROVED
                      /\ leave_requests[i].start_date <= self.date
                      /\ leave_requests[i].end_date >= self.date}
    IN \A i \in leaves :
          (self.start_time < leave_requests[i].end_time
              /\ self.end_time > leave_requests[i].start_time) => is_emergency

AppointmentHoursOk(self) ==
    LET is_emergency == self.appointment_type = EMERGENCY \/ self.is_emergency
        doctor_has_availability_slots ==
            \E w \in availability : w.doctor = self.doctor
        has_window ==
            \E w \in availability :
                /\ w.doctor = self.doctor
                /\ w.day_of_week = weekday(self.date)
                /\ w.start_time <= self.start_time
                /\ w.end_time >= self.end_time
    IN IF doctor_has_availability_slots
       THEN ~(~has_window /\ ~is_emergency)
       ELSE ~((self.start_time < standard_start \/ self.end_time > standard_end)
                 /\ ~is_emergency)

\* as AppointmentDoctorFree, with emergency appointments let through
AppointmentDoctorFreeUnlessEmergency(self, id) ==
    \/ self.appointment_type = EMERGENCY
    \/ self.is_emergency
    \/ \A i \in DOMAIN appointments :
          (/\ i # id
           /\ appointments[i].doctor = self.doctor
           /\ appointments[i].date = self.date
           /\ appointments[i].status \in ActiveStatuses)
          => ~(self.start_time < appointments[i].end_time
                  /\ self.end_time > appointments[i].start_time)

AppointmentDoctorFree(self, id) ==
    \A i \in DOMAIN appointments :
        (/\ i # id
         /\ appointments[i].doctor = self.doctor
         /\ appointments[i].date = self.date
         /\ appointments[i].status \in ActiveStatuses)
        => ~(self.start_time < appointments[i].end_time
                /\ self.end_time > appointments[i].start_time)

AppointmentPatientFree(self, id) ==
    \A i \in DOMAIN appointments :
        (/\ i # id
         /\ appointments[i].patient = self.patient
         /\ appointments[i].date = self.date
         /\ appointments[i].status \in ActiveStatuses)
        => ~(self.start_time < appointments[i].end_time
                /\ self.end_time > appointments[i].start_time)

AppointmentClean(self, id) ==
    /\ AppointmentTimesValid(self)
    /\ AppointmentLeaveOk(self)
    /\ AppointmentHoursOk(self)
    /\ AppointmentDoctorFree(self, id)
    /\ AppointmentPatientFree(self, id)

(***************************************************************************)
(* DoctorLeaveRequest.clean and DoctorLeaveRequestForm.clean                *)
(***************************************************************************)
LeaveClean(self) ==
    /\ ~(self.start_date > self.end_date)
    /\ \/ (self.start_time = Time(0, 0) /\ self.end_time = Time(23, 59))
       \/ ~(self.start_time >= self.end_time)

\* the cleaned end_time of the form: 00:00-00:00 becomes a full-day leave
LeaveFormEndTime(start_time, end_time) ==
    IF start_time = end_time /\ start_time = Time(0, 0)
    THEN Time(23, 59)
    ELSE end_time

LeaveFormClean(start_date, end_date, start_time, end_time) ==
    /\ ~(start_date > end_date)
    /\ \/ (start_time = end_time /\ start_time = Time(0, 0))
       \/ ~(start_time >= end_time)

(***************************************************************************)
(* DoctorAvailability.clean, for a row that is not stored yet               *)
(***************************************************************************)
\* as AvailabilityClean, without the comparison with the stored windows
AvailabilityCleanTimesOnly(self) == ~(self.start_time >= self.end_time)

AvailabilityClean(self) ==
    /\ ~(self.start_time >= self.end_time)
    /\ \A slot \in availability :
          (slot.doctor = self.doctor /\ slot.day_of_week = self.day_of_week)
          => ~(self.start_time <= slot.end_time /\ self.end_time >= slot.start_time)

(***************************************************************************)
(* get_available_slots                                                      *)
(***************************************************************************)
\* datetime.strftime('%H:%M') of the minute t of the day: the pair (HH, MM)
strftime(t) == <<t \div 60, t % 60>>

\* (datetime.combine(date, time) + timedelta).time(): the date is dropped
time_of(t) == t % Time(24, 0)

EmergencyMinutes == 15
SlotMinutes == 30

\* as existing_appointments, without the filter on the status
existing_appointments_any_status(doctor, date) ==
    {i \in DOMAIN appointments :
        /\ appointments[i].doctor = doctor
        /\ appointments[i].date = date}

existing_appointments(doctor, date) ==
    {i \in DOMAIN appointments :
        /\ appointments[i].doctor = doctor
        /\ appointments[i].date = date
        /\ appointments[i].status \in {SCHEDULED, CONFIRMED}}

\* as is_available, with intervals that only touch counted as overlapping
is_available_closed(slot_start, slot_end, doctor, date) ==
    \A i \in existing_appointments(doctor, date) :
        ~(slot_start <= appointments[i].end_time
             /\ slot_end >= appointments[i].start_time)

\* the inner loop over existing_appointments: is_available after the loop
is_available(slot_start, slot_end, doctor, date) ==
    \A i \in existing_appointments(doctor, date) :
        ~(slot_start < appointments[i].end_time
             /\ slot_end > appointments[i].start_time)

\* as GenerateSlots, without the cut of slot_end at end_datetime
GenerateSlotsUncut(slot_start, end_datetime, minutes) ==
    LET iterations == IF slot_start < end_datetime
                      THEN (end_datetime - slot_start + minutes - 1) \div minutes
                      ELSE 0
    IN [k \in 1..iterations |->
          [start |-> slot_start + (k - 1) * minutes,
           end |-> slot_start + k * minutes]]

\* The while loop of every branch, as the candidates it visits in order. Each
\* iteration ends with slot_start = slot_end and slot_end is slot_start + minutes
\* cut at end_datetime, so iteration k starts at slot_start + (k - 1) * minutes
\* and the loop runs while that is before end_datetime.
GenerateSlots(slot_start, end_datetime, minutes) ==
    LET iterations == IF slot_start < end_datetime
                      THEN (end_datetime - slot_start + minutes - 1) \div minutes
                      ELSE 0
    IN [k \in 1..iterations |->
          [start |-> slot_start + (k - 1) * minutes,
           end |-> IF slot_start + k * minutes > end_datetime
                   THEN end_datetime
                   ELSE slot_start + k * minutes]]

\* the dictionary appended to available_slots
SlotEntry(slot_start, slot_end, suffix) ==
    [start |-> strftime(slot_start),
     end |-> strftime(slot_end),
     display |-> <<strftime(slot_start), strftime(slot_end), suffix>>]

SlotEntries(slots, suffix) ==
    [k \in 1..Len(slots) |-> SlotEntry(slots[k].start, slots[k].end, suffix)]

\* emergency branch: the slots found by the loop over 00:00-23:59
EmergencyLoop(doctor, date) ==
    LET keep(c) == is_available(c.start, c.end, doctor, date)
    IN SelectSeq(GenerateSlots(Time(0, 0), Time(23, 59), EmergencyMinutes), keep)

\* as EmergencyFallback, with the label of a regular slot
EmergencyFallbackUnlabelled(now) ==
    LET emergency_start == Time(now[2], (now[3] \div 15) * 15)
        emergency_end == time_of(emergency_start + 15)
    IN SlotEntry(emergency_start, emergency_end, "")

\* the slot added when the loop found none and the date is today
EmergencyFallback(now) ==
    LET emergency_start == Time(now[2], (now[3] \div 15) * 15)
        emergency_end == time_of(emergency_start + 15)
    IN SlotEntry(emergency_start, emergency_end, " (Emergency)")

EmergencySlots(doctor, date, now) ==
    LET available_slots == SlotEntries(EmergencyLoop(doctor, date), " (Emergency)")
    IN IF available_slots = <<>> /\ date = now[1]
       THEN <<EmergencyFallback(now)>>
       ELSE available_slots

\* approved leave requests of the doctor that cover the date, in the table
\* `requests` of leave requests
ApprovedLeaves(requests, doctor, date) ==
    {i \in DOMAIN requests :
        /\ requests[i].doctor = doctor
        /\ requests[i].status = APPROVED
        /\ requests[i].start_date <= date
        /\ requests[i].end_date >= date}

\* .first() under Meta.ordering = ['-created_at']: the row created last
doctor_leave(requests, doctor, date) ==
    CHOOSE i \in ApprovedLeaves(requests, doctor, date) :
        \A j \in ApprovedLeaves(requests, doctor, date) : j <= i

LeaveSlots(requests, doctor, date) ==
    LET leave == requests[doctor_leave(requests, doctor, date)]
        keep(c) ==
            /\ ~(c.start < leave.end_time /\ c.end > leave.start_time)
            /\ is_available(c.start, c.end, doctor, date)
    IN SlotEntries(
           SelectSeq(GenerateSlots(Time(8, 0), Time(22, 0), SlotMinutes), keep), "")

day_slots(doctor, date) ==
    {w \in availability : w.doctor = doctor /\ w.day_of_week = weekday(date)}

\* as OrderedWindows, with the window that starts last taken first
RECURSIVE OrderedWindowsLatestFirst(_)
OrderedWindowsLatestFirst(windows) ==
    IF windows = {}
    THEN <<>>
    ELSE LET first == CHOOSE w \in windows :
                          \A v \in windows : w.start_time >= v.start_time
         IN <<first>> \o OrderedWindowsLatestFirst(windows \ {first})

\* Meta.ordering = ['day_of_week', 'start_time'] on one day: by start_time
RECURSIVE OrderedWindows(_)
OrderedWindows(windows) ==
    IF windows = {}
    THEN <<>>
    ELSE LET first == CHOOSE w \in windows :
                          \A v \in windows : w.start_time <= v.start_time
         IN <<first>> \o OrderedWindows(windows \ {first})

RECURSIVE WindowCandidates(_)
WindowCandidates(windows) ==
    IF windows = <<>>
    THEN <<>>
    ELSE GenerateSlots(Head(windows).start_time, Head(windows).end_time, SlotMinutes)
             \o WindowCandidates(Tail(windows))

AvailabilitySlots(doctor, date) ==
    LET keep(c) == is_available(c.start, c.end, doctor, date)
    IN SlotEntries(
           SelectSeq(WindowCandidates(OrderedWindows(day_slots(doctor, date))), keep), "")

StandardSlots(doctor, date) ==
    LET keep(c) == is_available(c.start, c.end, doctor, date)
    IN SlotEntries(
           SelectSeq(GenerateSlots(Time(8, 0), Time(22, 0), SlotMinutes), keep), "")

\* as BranchGiven, with the leave looked up before the emergency flag
BranchLeaveFirst(requests, doctor_id, date, is_emergency) ==
    IF doctor_id \notin Doctors THEN "error"
    ELSE IF ApprovedLeaves(requests, doctor_id, date) # {} THEN "leave"
    ELSE IF is_emergency THEN "emergency"
    ELSE IF (\E w \in availability : w.doctor = doctor_id)
              /\ day_slots(doctor_id, date) # {} THEN "availability"
    ELSE "standard"

\* which return statement of the view answers the request, the table of
\* leave requests being `requests`
BranchGiven(requests, doctor_id, date, is_emergency) ==
    IF doctor_id \notin Doctors THEN "error"
    ELSE IF is_emergency THEN "emergency"
    ELSE IF ApprovedLeaves(requests, doctor_id, date) # {} THEN "leave"
    ELSE IF (\E w \in availability : w.doctor = doctor_id)
              /\ day_slots(doctor_id, date) # {} THEN "availability"
    ELSE "standard"

SlotsGiven(requests, doctor_id, date, is_emergency, now) ==
    LET branch == BranchGiven(requests, doctor_id, date, is_emergency)
    IN CASE branch = "error" -> <<>>
         [] branch = "emergency" -> EmergencySlots(doctor_id, date, now)
         [] branch = "leave" -> LeaveSlots(requests, doctor_id, date)
         [] branch = "availability" -> AvailabilitySlots(doctor_id, date)
         [] branch = "standard" -> StandardSlots(doctor_id, date)

Branch(doctor_id, date, is_emergency) ==
    BranchGiven(leave_requests, doctor_id, date, is_emergency)

Slots(doctor_id, date, is_emergency, now) ==
    SlotsGiven(leave_requests, doctor_id, date, is_emergency, now)

\* timezone.now() is read only when the emergency loop found no slot
ReadsClock(doctor_id, date, is_emergency) ==
    /\ Branch(doctor_id, date, is_emergency) = "emergency"
    /\ EmergencyLoop(doctor_id, date) = <<>>

(***************************************************************************)
(* Responses                                                                *)
(***************************************************************************)
NoClock == <<>>

Response(view, status) ==
    [view |-> view, status |-> status, doctor_id |-> 0, date |-> 0,
     is_emergency |-> FALSE, now |-> NoClock, branch |-> "", slots |-> <<>>]

\* as LookupResponse, with an empty list of slots answered as an error
LookupResponseEmptyIsError(doctor_id, date, is_emergency, now) ==
    [view |-> "get_available_slots",
     status |-> IF Branch(doctor_id, date, is_emergency) = "error" THEN 400
                ELSE IF Slots(doctor_id, date, is_emergency, now) = <<>> THEN 404
                ELSE 200,
     doctor_id |-> doctor_id, date |-> date, is_emergency |-> is_emergency,
     now |-> IF ReadsClock(doctor_id, date, is_emergency) THEN now ELSE NoClock,
     branch |-> Branch(doctor_id, date, is_emergency),
     slots |-> Slots(doctor_id, date, is_emergency, now)]

LookupResponse(doctor_id, date, is_emergency, now) ==
    [view |-> "get_available_slots",
     status |-> IF Branch(doctor_id, date, is_emergency) = "error" THEN 400 ELSE 200,
     doctor_id |-> doctor_id, date |-> date, is_emergency |-> is_emergency,
     now |-> IF ReadsClock(doctor_id, date, is_emergency) THEN now ELSE NoClock,
     branch |-> Branch(doctor_id, date, is_emergency),
     slots |-> Slots(doctor_id, date, is_emergency, now)]

(***************************************************************************)
(* Views                                                                    *)
(***************************************************************************)
book_appointment(patient, doctor, date, start_time, end_time, appointment_type, is_emergency) ==
    LET appointment ==
            [patient |-> patient, doctor |-> doctor, date |-> date,
             start_time |-> start_time, end_time |-> end_time,
             appointment_type |-> IF is_emergency THEN EMERGENCY ELSE appointment_type,
             is_emergency |-> is_emergency, status |-> SCHEDULED]
    IN /\ Len(appointments) < MaxAppointments
       /\ Rows < MaxRows
       /\ IF AppointmentClean(appointment, 0)
          THEN /\ appointments' = Append(appointments, appointment)
               /\ response' = Response("book_appointment", 302)
          ELSE /\ appointments' = appointments
               /\ response' = Response("book_appointment", 200)
       /\ UNCHANGED <<leave_requests, availability, loop, saving, patient_vars, pharmacy_vars>>

\* Appointment.save: full_clean, then the row is written
AppointmentSave(pk, appointment, view) ==
    /\ IF AppointmentClean(appointment, pk)
       THEN /\ appointments' = [appointments EXCEPT ![pk] = appointment]
            /\ response' = Response(view, 302)
       ELSE /\ appointments' = appointments
            /\ response' = Response(view, 500)
    /\ UNCHANGED <<leave_requests, availability, loop, saving, patient_vars, pharmacy_vars>>

update_appointment_status(pk, status) ==
    /\ pk \in DOMAIN appointments
    /\ AppointmentSave(pk, [appointments[pk] EXCEPT !.status = status],
                       "update_appointment_status")

cancel_appointment(pk) ==
    /\ pk \in DOMAIN appointments
    /\ AppointmentSave(pk, [appointments[pk] EXCEPT !.status = CANCELLED],
                       "cancel_appointment")

doctor_leave_request(doctor, start_date, end_date, start_time, end_time) ==
    LET leave_request ==
            [doctor |-> doctor, start_date |-> start_date, end_date |-> end_date,
             start_time |-> start_time,
             end_time |-> LeaveFormEndTime(start_time, end_time),
             status |-> PENDING]
    IN /\ Len(leave_requests) < MaxLeaves
       /\ Rows < MaxRows
       /\ IF LeaveFormClean(start_date, end_date, start_time, end_time)
             /\ LeaveClean(leave_request)
          THEN /\ leave_requests' = Append(leave_requests, leave_request)
               /\ response' = Response("doctor_leave_request", 302)
          ELSE /\ leave_requests' = leave_requests
               /\ response' = Response("doctor_leave_request", 200)
       /\ UNCHANGED <<appointments, availability, loop, saving, patient_vars, pharmacy_vars>>

cancel_leave_request(user, pk) ==
    /\ pk \in DOMAIN leave_requests
    /\ IF leave_requests[pk].doctor # user
       THEN /\ leave_requests' = leave_requests
            /\ response' = Response("cancel_leave_request", 404)
       ELSE IF leave_requests[pk].status # PENDING
       THEN /\ leave_requests' = leave_requests
            /\ response' = Response("cancel_leave_request", 302)
       ELSE IF LeaveClean([leave_requests[pk] EXCEPT !.status = CANCELLED])
       THEN /\ leave_requests' = [leave_requests EXCEPT ![pk].status = CANCELLED]
            /\ response' = Response("cancel_leave_request", 302)
       ELSE /\ leave_requests' = leave_requests
            /\ response' = Response("cancel_leave_request", 500)
    /\ UNCHANGED <<appointments, availability, loop, saving, patient_vars, pharmacy_vars>>

\* the statuses LeaveRequestReviewForm accepts
ReviewChoices == {APPROVED, REJECTED}

\* as review_leave_request, without the check that the request is PENDING
review_leave_request_any_status(pk, status) ==
    /\ pk \in DOMAIN leave_requests
    /\ IF status \in ReviewChoices
          /\ LeaveClean([leave_requests[pk] EXCEPT !.status = status])
       THEN /\ leave_requests' = [leave_requests EXCEPT ![pk].status = status]
            /\ response' = Response("review_leave_request", 302)
       ELSE /\ leave_requests' = leave_requests
            /\ response' = Response("review_leave_request", 200)
    /\ UNCHANGED <<appointments, availability, loop, saving, patient_vars, pharmacy_vars>>

review_leave_request(pk, status) ==
    /\ pk \in DOMAIN leave_requests
    /\ IF leave_requests[pk].status \notin {PENDING}
       THEN /\ leave_requests' = leave_requests
            /\ response' = Response("review_leave_request", 302)
       ELSE IF status \in ReviewChoices
               /\ LeaveClean([leave_requests[pk] EXCEPT !.status = status])
       THEN /\ leave_requests' = [leave_requests EXCEPT ![pk].status = status]
            /\ response' = Response("review_leave_request", 302)
       ELSE /\ leave_requests' = leave_requests
            /\ response' = Response("review_leave_request", 200)
    /\ UNCHANGED <<appointments, availability, loop, saving, patient_vars, pharmacy_vars>>

\* The form has no doctor field and the view sets the doctor only after
\* is_valid(), so DoctorAvailability.clean runs on an instance without a
\* doctor: start_time >= end_time is a form error, and otherwise reading
\* self.doctor raises before anything is saved.
manage_availability(doctor, day_of_week, start_time, end_time) ==
    /\ response' = Response("manage_availability",
                            IF start_time >= end_time THEN 200 ELSE 500)
    /\ UNCHANGED <<appointments, leave_requests, availability, loop, saving, patient_vars, pharmacy_vars>>

\* the admin site's add form of DoctorAvailability: full_clean (clean and
\* unique_together), then save
admin_add_availability(doctor, day_of_week, start_time, end_time) ==
    LET slot == [doctor |-> doctor, day_of_week |-> day_of_week,
                 start_time |-> start_time, end_time |-> end_time]
        unique == ~\E w \in availability :
                      /\ w.doctor = doctor
                      /\ w.day_of_week = day_of_week
                      /\ w.start_time = start_time
    IN /\ Cardinality(availability) < MaxAvailability
       /\ Rows < MaxRows
       /\ IF AvailabilityClean(slot) /\ unique
          THEN /\ availability' = availability \cup {slot}
               /\ response' = Response("admin_add_availability", 302)
          ELSE /\ availability' = availability
               /\ response' = Response("admin_add_availability", 200)
       /\ UNCHANGED <<appointments, leave_requests, loop, saving, patient_vars, pharmacy_vars>>

delete_availability(user, slot) ==
    /\ slot \in availability
    /\ availability' = IF slot.doctor = user
                       THEN availability \ {slot}
                       ELSE availability
    /\ response' = Response("delete_availability", 302)
    /\ UNCHANGED <<appointments, leave_requests, loop, saving, patient_vars, pharmacy_vars>>

\* as get_available_slots, with the leave requests deleted by the lookup
get_available_slots_writing(doctor_id, date, is_emergency, now) ==
    /\ response' = LookupResponse(doctor_id, date, is_emergency, now)
    /\ leave_requests' = <<>>
    /\ UNCHANGED <<appointments, availability, loop, saving, patient_vars, pharmacy_vars>>

get_available_slots(doctor_id, date, is_emergency, now) ==
    /\ response' = LookupResponse(doctor_id, date, is_emergency, now)
    /\ UNCHANGED <<appointments, leave_requests, availability, loop, saving, patient_vars, pharmacy_vars>>

(***************************************************************************)
(* Requests the model draws from                                            *)
(***************************************************************************)
NoUser == 0

ClockTimes == {<<10, 7>>, <<23, 50>>}

Clocks == {<<d, t[1], t[2]>> : d \in Dates, t \in ClockTimes}

\* the clock readings that can tell two runs of a lookup apart
ClockReadings(doctor_id, date, is_emergency) ==
    IF ReadsClock(doctor_id, date, is_emergency)
    THEN Clocks
    ELSE {CHOOSE now \in Clocks : TRUE}

\* no generation loop is running
NoLoop == <<>>

\* the request processes of the server, and a process that is saving nothing
Processes == 1..MaxProcesses
NoAppointment == <<>>
Idle == [p \in Processes |-> NoAppointment]

\* the hospital as setup_hospital leaves it: every bed free, nobody admitted,
\* every doctor available
Beds == {1, 2}

InitPatient ==
    /\ beds = [b \in Beds |-> FALSE]
    /\ admissions = <<>>
    /\ admission_requests = <<>>
    /\ user_is_available = [d \in Doctors |-> TRUE]

\* no purchase order yet, every medicine out of stock
Medicines == {1, 2}

InitPharmacy ==
    /\ purchases = <<>>
    /\ stock_quantity = [m \in Medicines |-> 0]

Init ==
    /\ appointments = <<>>
    /\ leave_requests = <<>>
    /\ availability = {}
    /\ response = Response("", 0)
    /\ loop = NoLoop
    /\ saving = Idle
    /\ InitPatient
    /\ InitPharmacy

Lookup ==
    \E doctor_id \in Doctors \cup {NoUser}, date \in Dates, is_emergency \in BOOLEAN :
        \E now \in ClockReadings(doctor_id, date, is_emergency) :
            get_available_slots(doctor_id, date, is_emergency, now)

Cancel == \E pk \in 1..MaxAppointments : cancel_appointment(pk)

(***************************************************************************)
(* Spec: booking, status updates and cancellation of appointments           *)
(***************************************************************************)
BookTimes ==
    {<<Time(8, 0), Time(8, 15)>>, <<Time(8, 0), Time(8, 30)>>,
     <<Time(8, 30), Time(9, 0)>>, <<Time(9, 0), Time(8, 30)>>}

Book ==
    \E patient \in Patients, doctor \in Doctors, date \in Dates, t \in BookTimes,
       appointment_type \in {REGULAR, EMERGENCY}, is_emergency \in BOOLEAN :
        book_appointment(patient, doctor, date, t[1], t[2], appointment_type,
                         is_emergency)

UpdateStatus ==
    \E pk \in 1..MaxAppointments, status \in STATUS_CHOICES :
        update_appointment_status(pk, status)

Next ==
    \/ Book
    \/ UpdateStatus
    \/ Cancel

Spec == Init /\ [][Next]_vars

(***************************************************************************)
(* SpecEmergency: bookings that can fill a doctor's day, leave, and lookups *)
(***************************************************************************)
EmergencyBookTimes ==
    {<<Time(0, 0), Time(23, 59)>>, <<Time(8, 0), Time(8, 15)>>}

EmergencyBook ==
    \E doctor \in Doctors, date \in Dates, t \in EmergencyBookTimes,
       is_emergency \in BOOLEAN :
        book_appointment(1, doctor, date, t[1], t[2], REGULAR, is_emergency)

EmergencyLeaveRequest ==
    \E doctor \in Doctors :
        doctor_leave_request(doctor, 1, 2, Time(8, 0), Time(9, 0))

EmergencyLeaveReview ==
    \E pk \in 1..MaxLeaves : review_leave_request(pk, APPROVED)

NextEmergency ==
    \/ EmergencyBook
    \/ Cancel
    \/ EmergencyLeaveRequest
    \/ EmergencyLeaveReview
    \/ Lookup

SpecEmergency == Init /\ [][NextEmergency]_vars

(***************************************************************************)
(* SpecSlots: appointments, leave and availability windows of the doctors,  *)
(* and lookups in every branch                                              *)
(***************************************************************************)
\* start, end and emergency flag of the bookings: the last one fills the day
SlotsBookTimes ==
    {<<Time(8, 0), Time(8, 15), FALSE>>, <<Time(8, 30), Time(9, 0), FALSE>>,
     <<Time(0, 0), Time(23, 59), TRUE>>}

SlotsLeaveTimes ==
    {<<Time(0, 0), Time(0, 0)>>, <<Time(8, 0), Time(9, 0)>>,
     <<Time(10, 0), Time(11, 0)>>, <<Time(9, 0), Time(8, 0)>>}

WindowTimes ==
    {<<Time(8, 0), Time(8, 45)>>, <<Time(8, 30), Time(9, 30)>>,
     <<Time(9, 0), Time(10, 15)>>, <<Time(9, 0), Time(9, 0)>>}

SlotsBook ==
    \E doctor \in Doctors, t \in SlotsBookTimes :
        book_appointment(1, doctor, 1, t[1], t[2], REGULAR, t[3])

SlotsLeaveRequest ==
    \E start_date \in Dates, end_date \in Dates, t \in SlotsLeaveTimes :
        doctor_leave_request(1, start_date, end_date, t[1], t[2])

SlotsLeaveReview ==
    \E pk \in 1..MaxLeaves, status \in {APPROVED, REJECTED, CANCELLED} :
        review_leave_request(pk, status)

SlotsLeaveCancel ==
    \E user \in Doctors, pk \in 1..MaxLeaves : cancel_leave_request(user, pk)

ManageAvailability ==
    \E doctor \in Doctors, t \in WindowTimes :
        manage_availability(doctor, weekday(1), t[1], t[2])

AdminAddAvailability ==
    \E date \in Dates, t \in WindowTimes :
        admin_add_availability(1, weekday(date), t[1], t[2])

DeleteAvailability ==
    \E user \in Doctors, slot \in availability : delete_availability(user, slot)

SlotsLookup ==
    \E date \in Dates, is_emergency \in BOOLEAN :
        \E now \in ClockReadings(1, date, is_emergency) :
            get_available_slots(1, date, is_emergency, now)

NextSlots ==
    \/ SlotsBook
    \/ Cancel
    \/ SlotsLeaveRequest
    \/ SlotsLeaveReview
    \/ SlotsLeaveCancel
    \/ ManageAvailability
    \/ AdminAddAvailability
    \/ DeleteAvailability
    \/ SlotsLookup

SpecSlots == Init /\ [][NextSlots]_vars

(***************************************************************************)
(* SpecRecords: every view that writes an appointment or a leave request    *)
(***************************************************************************)
NextRecords ==
    \/ Book
    \/ UpdateStatus
    \/ Cancel
    \/ SlotsLeaveRequest
    \/ SlotsLeaveReview
    \/ SlotsLeaveCancel

SpecRecords == Init /\ [][NextRecords]_vars

(***************************************************************************)
(* SpecLoop: one run of a slot generation loop, iteration by iteration.     *)
(* The four loops of get_available_slots have the same shape; `loop` holds  *)
(* the loop variables and the candidates visited so far.                    *)
(***************************************************************************)
\* the windows the loops run over, with the granularity of their branch
LoopWindows ==
    {<<Time(0, 0), Time(23, 59), EmergencyMinutes>>,
     <<Time(8, 0), Time(22, 0), SlotMinutes>>}
    \cup {<<t[1], t[2], SlotMinutes>> : t \in {u \in WindowTimes : u[1] < u[2]}}

\* the loop variables before the first test of the loop condition
LoopEntry(open, close, minutes) ==
    [open |-> open, slot_start |-> open, end_datetime |-> close,
     minutes |-> minutes, candidates |-> <<>>, done |-> FALSE]

InitLoop ==
    /\ appointments = <<>>
    /\ leave_requests = <<>>
    /\ availability = {}
    /\ response = Response("", 0)
    /\ loop \in {LoopEntry(w[1], w[2], w[3]) : w \in LoopWindows}
    /\ saving = Idle
    /\ InitPatient
    /\ InitPharmacy

\* as LoopStep, with the next iteration starting one minute later
LoopStepByMinute ==
    /\ ~loop.done
    /\ loop.slot_start < loop.end_datetime
    /\ LET slot_end == IF loop.slot_start + loop.minutes > loop.end_datetime
                       THEN loop.end_datetime
                       ELSE loop.slot_start + loop.minutes
       IN loop' = [loop EXCEPT
                      !.candidates = Append(@, [start |-> loop.slot_start,
                                                end |-> slot_end]),
                      !.slot_start = loop.slot_start + 1]
    /\ UNCHANGED <<appointments, leave_requests, availability, response, saving, patient_vars, pharmacy_vars>>

\* one iteration of `while slot_start < end_datetime`: slot_end is cut at
\* end_datetime and the next iteration starts at slot_end
LoopStep ==
    /\ ~loop.done
    /\ loop.slot_start < loop.end_datetime
    /\ LET slot_end == IF loop.slot_start + loop.minutes > loop.end_datetime
                       THEN loop.end_datetime
                       ELSE loop.slot_start + loop.minutes
       IN loop' = [loop EXCEPT
                      !.candidates = Append(@, [start |-> loop.slot_start,
                                                end |-> slot_end]),
                      !.slot_start = slot_end]
    /\ UNCHANGED <<appointments, leave_requests, availability, response, saving, patient_vars, pharmacy_vars>>

\* the loop condition is false: the loop is left
LoopExit ==
    /\ ~loop.done
    /\ ~(loop.slot_start < loop.end_datetime)
    /\ loop' = [loop EXCEPT !.done = TRUE]
    /\ UNCHANGED <<appointments, leave_requests, availability, response, saving, patient_vars, pharmacy_vars>>

NextLoop ==
    \/ LoopStep
    \/ LoopExit

\* the view runs the loop to its end: no iteration waits for anything
SpecLoop == InitLoop /\ [][NextLoop]_vars /\ WF_vars(NextLoop)

(***************************************************************************)
(* SpecRace: book_appointment requests served at the same time.  The       *)
(* database runs in autocommit mode and the view takes no lock, so the      *)
(* queries of Appointment.clean and the INSERT of one request are separate  *)
(* statements, and statements of other requests can run between them.       *)
(***************************************************************************)
Saving == {p \in Processes : saving[p] # NoAppointment}

\* appointment.save() of book_appointment up to the end of self.full_clean()
full_clean(p, patient, doctor, date, start_time, end_time) ==
    LET appointment ==
            [patient |-> patient, doctor |-> doctor, date |-> date,
             start_time |-> start_time, end_time |-> end_time,
             appointment_type |-> REGULAR, is_emergency |-> FALSE,
             status |-> SCHEDULED]
    IN /\ saving[p] = NoAppointment
       /\ Len(appointments) + Cardinality(Saving) < MaxAppointments
       /\ IF AppointmentClean(appointment, 0)
          THEN /\ saving' = [saving EXCEPT ![p] = appointment]
               /\ response' = response
          ELSE /\ saving' = saving
               /\ response' = Response("book_appointment", 200)
       /\ UNCHANGED <<appointments, leave_requests, availability, loop, patient_vars, pharmacy_vars>>

\* super().save() of Appointment.save: the validated row is inserted
super_save(p) ==
    /\ saving[p] # NoAppointment
    /\ appointments' = Append(appointments, saving[p])
    /\ saving' = [saving EXCEPT ![p] = NoAppointment]
    /\ response' = Response("book_appointment", 302)
    /\ UNCHANGED <<leave_requests, availability, loop, patient_vars, pharmacy_vars>>

RaceValidate ==
    \E p \in Processes, patient \in Patients, doctor \in Doctors, date \in Dates,
       t \in BookTimes :
        full_clean(p, patient, doctor, date, t[1], t[2])

RaceInsert == \E p \in Processes : super_save(p)

NextRace ==
    \/ RaceValidate
    \/ RaceInsert

SpecRace == Init /\ [][NextRace]_vars

(***************************************************************************)
(* Admissions (src/patient): admission requests, room assignment, direct    *)
(* and emergency admission, discharge                                       *)
(***************************************************************************)
\* discharge_date of an admission that has not been discharged
NoDate == 0
\* timezone.now(), as a date that is set
Today == 1
\* patient_admission of a request without admission; bed_id of no bed
NoRow == 0

\* as admission_request_assign_room, with an occupied bed accepted
admission_request_assign_room_any_bed(pk, bed_id) ==
    /\ pk \in DOMAIN admission_requests
    /\ Len(admissions) < MaxAdmissions
    /\ IF admission_requests[pk].status # APPROVED
       THEN /\ response' = Response("admission_request_assign_room", 302)
            /\ UNCHANGED <<beds, admissions, admission_requests>>
       ELSE IF bed_id \notin Beds
       THEN /\ response' = Response("admission_request_assign_room", 404)
            /\ UNCHANGED <<beds, admissions, admission_requests>>
       ELSE /\ admissions' = Append(admissions,
                                    [patient |-> admission_requests[pk].patient,
                                     bed |-> bed_id, admission_type |-> REGULAR,
                                     discharge_date |-> NoDate, created_for |-> pk])
            /\ admission_requests' =
                   [admission_requests EXCEPT
                       ![pk].status = COMPLETED,
                       ![pk].patient_admission = Len(admissions) + 1]
            /\ beds' = [beds EXCEPT ![bed_id] = TRUE]
            /\ response' = Response("admission_request_assign_room", 302)
    /\ UNCHANGED <<appointments, leave_requests, availability, loop, saving, user_is_available, pharmacy_vars>>

admission_request_create(patient) ==
    /\ Len(admission_requests) < MaxRequests
    /\ admission_requests' = Append(admission_requests,
                                    [patient |-> patient, status |-> PENDING,
                                     patient_admission |-> NoRow])
    /\ response' = Response("admission_request_create", 302)
    /\ UNCHANGED <<appointments, leave_requests, availability, loop, saving, beds, admissions, user_is_available, pharmacy_vars>>

\* the status of the request is not looked at before it is set
admission_request_process(pk, action) ==
    /\ pk \in DOMAIN admission_requests
    /\ IF action = "approve"
       THEN /\ admission_requests' = [admission_requests EXCEPT ![pk].status = APPROVED]
            /\ response' = Response("admission_request_process", 302)
       ELSE IF action = "reject"
       THEN /\ admission_requests' = [admission_requests EXCEPT ![pk].status = REJECTED]
            /\ response' = Response("admission_request_process", 302)
       ELSE /\ admission_requests' = admission_requests
            /\ response' = Response("admission_request_process", 200)
    /\ UNCHANGED <<appointments, leave_requests, availability, loop, saving, beds, admissions, user_is_available, pharmacy_vars>>

\* PatientAdmission.objects.create runs PatientAdmission.save, which marks the
\* bed occupied; the view marks it occupied once more.  `created_for` records
\* the request the admission was created for.
admission_request_assign_room(pk, bed_id) ==
    /\ pk \in DOMAIN admission_requests
    /\ Len(admissions) < MaxAdmissions
    /\ IF admission_requests[pk].status # APPROVED
       THEN /\ response' = Response("admission_request_assign_room", 302)
            /\ UNCHANGED <<beds, admissions, admission_requests>>
       ELSE IF bed_id \notin Beds \/ beds[bed_id]
       THEN /\ response' = Response("admission_request_assign_room", 404)
            /\ UNCHANGED <<beds, admissions, admission_requests>>
       ELSE /\ admissions' = Append(admissions,
                                    [patient |-> admission_requests[pk].patient,
                                     bed |-> bed_id, admission_type |-> REGULAR,
                                     discharge_date |-> NoDate, created_for |-> pk])
            /\ admission_requests' =
                   [admission_requests EXCEPT
                       ![pk].status = COMPLETED,
                       ![pk].patient_admission = Len(admissions) + 1]
            /\ beds' = [beds EXCEPT ![bed_id] = TRUE]
            /\ response' = Response("admission_request_assign_room", 302)
    /\ UNCHANGED <<appointments, leave_requests, availability, loop, saving, user_is_available, pharmacy_vars>>

\* PatientAdmission.discharge: the discharge date is set, the row is saved
\* (PatientAdmission.save marks the bed occupied if it was not) and the bed is
\* freed
admission_discharge(pk) ==
    /\ pk \in DOMAIN admissions
    /\ IF admissions[pk].discharge_date # NoDate
       THEN /\ response' = Response("admission_discharge", 302)
            /\ UNCHANGED <<beds, admissions>>
       ELSE /\ admissions' = [admissions EXCEPT ![pk].discharge_date = Today]
            /\ beds' = [beds EXCEPT ![admissions[pk].bed] = FALSE]
            /\ response' = Response("admission_discharge", 302)
    /\ UNCHANGED <<appointments, leave_requests, availability, loop, saving, admission_requests, user_is_available, pharmacy_vars>>

\* PatientAdmissionForm offers the beds with is_occupied = False.  The form
\* has no assigned_nurse field, so the view always calls
\* _find_available_nurse, whose Nurse.objects.filter(floor=...) names a field
\* the Nurse model does not have: the request fails before admission.save().
admission_create(patient, bed) ==
    /\ response' = Response("admission_create",
                            IF bed \notin Beds \/ beds[bed] THEN 200 ELSE 500)
    /\ UNCHANGED <<appointments, leave_requests, availability, loop, saving, patient_vars, pharmacy_vars>>

\* EmergencyAdmissionForm offers the doctors with is_available = True and the
\* beds with is_occupied = False; the nurse lookup then fails as in
\* admission_create, before admission.save() and before the doctor is marked
\* unavailable.
emergency_admission(patient, admitting_doctor, bed) ==
    /\ response' = Response("emergency_admission",
                            IF \/ bed \notin Beds
                               \/ beds[bed]
                               \/ ~user_is_available[admitting_doctor]
                            THEN 200 ELSE 500)
    /\ UNCHANGED <<appointments, leave_requests, availability, loop, saving, patient_vars, pharmacy_vars>>

AdmissionRequestCreate == \E patient \in Patients : admission_request_create(patient)

AdmissionRequestProcess ==
    \E pk \in 1..MaxRequests, action \in {"approve", "reject", ""} :
        admission_request_process(pk, action)

AdmissionRequestAssignRoom ==
    \E pk \in 1..MaxRequests, bed_id \in Beds \cup {NoRow} :
        admission_request_assign_room(pk, bed_id)

AdmissionDischarge == \E pk \in 1..MaxAdmissions : admission_discharge(pk)

AdmissionCreate ==
    \E patient \in Patients, bed \in Beds \cup {NoRow} : admission_create(patient, bed)

EmergencyAdmission ==
    \E patient \in Patients, admitting_doctor \in Doctors, bed \in Beds :
        emergency_admission(patient, admitting_doctor, bed)

NextAdmissions ==
    \/ AdmissionRequestCreate
    \/ AdmissionRequestProcess
    \/ AdmissionRequestAssignRoom
    \/ AdmissionDischarge
    \/ AdmissionCreate
    \/ EmergencyAdmission

SpecAdmissions == Init /\ [][NextAdmissions]_vars

(***************************************************************************)
(* Purchase orders (src/pharmacy): add_purchase, receive_purchase and       *)
(* cancel_purchase                                                          *)
(***************************************************************************)
RECEIVED == "RECEIVED"

\* the medicines of the items of the orders that are placed
ItemLists == {<<1>>, <<1, 2>>, <<2, 2>>}

\* the texts posted as received_qty_<item id>
QuantityTexts == {"0", "2", "x"}

\* int(text) raises ValueError for a text that is no number
IsNumber(text) == text \in {"0", "1", "2"}

int(text) ==
    CASE text = "0" -> 0
      [] text = "1" -> 1
      [] text = "2" -> 2

add_purchase(medicine_ids) ==
    /\ Len(purchases) < MaxPurchases
    /\ purchases' = Append(purchases,
                           [status |-> PENDING,
                            items |-> [k \in DOMAIN medicine_ids |->
                                          [medicine |-> medicine_ids[k],
                                           received_quantity |-> 0]]])
    /\ response' = Response("add_purchase", 302)
    /\ UNCHANGED <<appointments, leave_requests, availability, loop, saving, patient_vars, stock_quantity>>

\* the items the loop of receive_purchase handles before int() raises: all of
\* them when every posted text is a number
Processed(items, received_qty) ==
    LET bad == {k \in DOMAIN items : ~IsNumber(received_qty[k])}
    IN IF bad = {}
       THEN DOMAIN items
       ELSE {k \in DOMAIN items : \A b \in bad : k < b}

\* the sum of received_quantity over the first n items that hold the medicine
RECURSIVE ReceivedQuantity(_, _, _)
ReceivedQuantity(items, medicine, n) ==
    IF n = 0
    THEN 0
    ELSE ReceivedQuantity(items, medicine, n - 1)
             + (IF items[n].medicine = medicine THEN items[n].received_quantity ELSE 0)

\* the order is saved as RECEIVED, then each item stores its received quantity
\* and adds it to the stock of its medicine, until an exception ends the loop
ReceiveItems(pk, received_qty) ==
    LET items == purchases[pk].items
        done == Processed(items, received_qty)
        received == [k \in DOMAIN items |->
                        IF k \in done
                        THEN [items[k] EXCEPT !.received_quantity = int(received_qty[k])]
                        ELSE items[k]]
    IN /\ purchases' = [purchases EXCEPT ![pk].status = RECEIVED,
                                         ![pk].items = received]
       /\ stock_quantity' =
              [m \in Medicines |->
                  stock_quantity[m] + ReceivedQuantity(received, m, Len(received))]
       /\ response' = Response("receive_purchase",
                               IF done = DOMAIN items THEN 302 ELSE 200)

\* as receive_purchase, without the check that the order is PENDING
receive_purchase_any_status(pk, received_qty) ==
    /\ pk \in DOMAIN purchases
    /\ ReceiveItems(pk, received_qty)
    /\ UNCHANGED <<appointments, leave_requests, availability, loop, saving, patient_vars>>

receive_purchase(pk, received_qty) ==
    /\ pk \in DOMAIN purchases
    /\ IF purchases[pk].status # PENDING
       THEN /\ response' = Response("receive_purchase", 302)
            /\ UNCHANGED <<purchases, stock_quantity>>
       ELSE ReceiveItems(pk, received_qty)
    /\ UNCHANGED <<appointments, leave_requests, availability, loop, saving, patient_vars>>

cancel_purchase(pk) ==
    /\ pk \in DOMAIN purchases
    /\ IF purchases[pk].status = RECEIVED
       THEN purchases' = purchases
       ELSE purchases' = [purchases EXCEPT ![pk].status = CANCELLED]
    /\ response' = Response("cancel_purchase", 302)
    /\ UNCHANGED <<appointments, leave_requests, availability, loop, saving, patient_vars, stock_quantity>>

AddPurchase == \E medicine_ids \in ItemLists : add_purchase(medicine_ids)

ReceivePurchase ==
    \E pk \in 1..MaxPurchases, received_qty \in [1..MaxItems -> QuantityTexts] :
        receive_purchase(pk, received_qty)

CancelPurchase == \E pk \in 1..MaxPurchases : cancel_purchase(pk)

NextPurchases ==
    \/ AddPurchase
    \/ ReceivePurchase
    \/ CancelPurchase

SpecPurchases == Init /\ [][NextPurchases]_vars

(***************************************************************************)
(* Properties of the slot lookup.  They read the response of the last       *)
(* request and the tables it was computed from: a lookup changes no table,  *)
(* and every other request replaces the response.                           *)
(***************************************************************************)
\* datetime.strptime(text, '%H:%M').time() of a slot boundary
strptime(text) == Time(text[1], text[2])

SlotStart(slot) == strptime(slot.start)
SlotEnd(slot) == strptime(slot.end)

IsLookup == response.view = "get_available_slots" /\ response.status = 200

\* SCHEDULED or CONFIRMED appointments of the doctor and date of the lookup
LookupAppointments ==
    {i \in DOMAIN appointments :
        /\ appointments[i].doctor = response.doctor_id
        /\ appointments[i].date = response.date
        /\ appointments[i].status \in ActiveStatuses}

\* APPROVED leave of the doctor of the lookup that covers its date
LookupLeaves ==
    {i \in DOMAIN leave_requests :
        /\ leave_requests[i].doctor = response.doctor_id
        /\ leave_requests[i].status = APPROVED
        /\ leave_requests[i].start_date <= response.date
        /\ leave_requests[i].end_date >= response.date}

LookupWindows ==
    {w \in availability :
        w.doctor = response.doctor_id /\ w.day_of_week = weekday(response.date)}

\* the emergency loop found nothing and the slot at the current time was added
IsFallback ==
    /\ IsLookup
    /\ response.is_emergency
    /\ response.now # NoClock
    /\ response.slots # <<>>

\* the candidates the loops of the lookup visit
LookupCandidates ==
    CASE response.branch = "emergency" ->
             GenerateSlots(Time(0, 0), Time(23, 59), EmergencyMinutes)
      [] response.branch = "availability" ->
             WindowCandidates(OrderedWindows(LookupWindows))
      [] OTHER -> GenerateSlots(Time(8, 0), Time(22, 0), SlotMinutes)

\* no active appointment and, for a non-emergency lookup, no approved leave
\* overlaps the interval
FreeInterval(start, end) ==
    /\ \A i \in LookupAppointments :
          ~Overlaps(start, end, appointments[i].start_time, appointments[i].end_time)
    /\ response.is_emergency
       \/ \A i \in LookupLeaves :
             ~Overlaps(start, end, leave_requests[i].start_time,
                       leave_requests[i].end_time)

Returned(c) ==
    {k \in DOMAIN response.slots :
        SlotStart(response.slots[k]) = c.start /\ SlotEnd(response.slots[k]) = c.end}

\* C1: no slot returned by a lookup, the emergency fallback slot included,
\* overlaps a SCHEDULED or CONFIRMED appointment of that doctor on that date.
C1_NoSlotOverlapsAppointment ==
    IsLookup =>
        \A k \in DOMAIN response.slots : \A i \in LookupAppointments :
            ~Overlaps(SlotStart(response.slots[k]), SlotEnd(response.slots[k]),
                      appointments[i].start_time, appointments[i].end_time)

\* C2: no slot returned by a non-emergency lookup overlaps any APPROVED leave
\* of the doctor that covers the date, whichever of the approved leaves it is.
C2_NoSlotOverlapsAnyLeave ==
    (IsLookup /\ ~response.is_emergency) =>
        \A k \in DOMAIN response.slots : \A i \in LookupLeaves :
            ~Overlaps(SlotStart(response.slots[k]), SlotEnd(response.slots[k]),
                      leave_requests[i].start_time, leave_requests[i].end_time)

\* C3: no two SCHEDULED or CONFIRMED appointments of one date that share the
\* doctor or share the patient overlap, emergency appointments included.
C3_NoDoubleBooking ==
    \A i \in DOMAIN appointments : \A j \in DOMAIN appointments :
        (/\ i # j
         /\ appointments[i].status \in ActiveStatuses
         /\ appointments[j].status \in ActiveStatuses
         /\ appointments[i].date = appointments[j].date
         /\ \/ appointments[i].doctor = appointments[j].doctor
            \/ appointments[i].patient = appointments[j].patient)
        => ~Overlaps(appointments[i].start_time, appointments[i].end_time,
                     appointments[j].start_time, appointments[j].end_time)

\* an inactive appointment overlaps an active emergency appointment of the
\* same doctor and date, and the status update that would have made both
\* active was refused
C3_Witness ==
    /\ response.view = "update_appointment_status"
    /\ response.status = 500
    /\ \E i \in DOMAIN appointments : \E j \in DOMAIN appointments :
          /\ appointments[i].status \notin ActiveStatuses
          /\ appointments[j].status \in ActiveStatuses
          /\ appointments[j].is_emergency
          /\ appointments[i].doctor = appointments[j].doctor
          /\ appointments[i].patient # appointments[j].patient
          /\ appointments[i].date = appointments[j].date
          /\ Overlaps(appointments[i].start_time, appointments[i].end_time,
                      appointments[j].start_time, appointments[j].end_time)

\* C4: an emergency lookup never returns an empty list of slots.
C4_EmergencyNeverEmpty ==
    (IsLookup /\ response.is_emergency) => response.slots # <<>>

\* leave tables that differ from the stored one
OtherLeaveTables ==
    {<<>>}
    \cup {<<[doctor |-> doctor, start_date |-> 1, end_date |-> 2,
             start_time |-> t[1], end_time |-> t[2], status |-> APPROVED]>> :
             doctor \in Doctors,
             t \in {<<Time(0, 0), Time(23, 59)>>, <<Time(8, 0), Time(8, 15)>>}}

\* C5: the slots of an emergency lookup are the slots the same lookup returns
\* with any other table of approved leave requests.
C5_EmergencyIgnoresLeave ==
    (IsLookup /\ response.is_emergency) =>
        LET now == IF response.now = NoClock
                   THEN CHOOSE clock \in Clocks : TRUE
                   ELSE response.now
        IN \A requests \in OtherLeaveTables :
              SlotsGiven(requests, response.doctor_id, response.date, TRUE, now)
                  = response.slots

\* an emergency lookup for a doctor on approved leave returned a slot inside
\* the leave
C5_Witness ==
    /\ IsLookup
    /\ response.is_emergency
    /\ \E i \in LookupLeaves : \E k \in DOMAIN response.slots :
          Overlaps(SlotStart(response.slots[k]), SlotEnd(response.slots[k]),
                   leave_requests[i].start_time, leave_requests[i].end_time)

\* the minutes of the working window of the lookup
WindowPoints ==
    CASE response.branch = "emergency" -> Time(0, 0)..(Time(23, 59) - 1)
      [] response.branch = "availability" ->
             {t \in Time(0, 0)..Time(23, 59) :
                 \E w \in LookupWindows : w.start_time <= t /\ t < w.end_time}
      [] OTHER -> Time(8, 0)..(Time(22, 0) - 1)

\* C6 as stated: every minute of the working window that no active
\* appointment and (non-emergency) no approved leave covers lies in exactly
\* one returned slot.
C6_EveryFreePointCovered ==
    IsLookup =>
        \A t \in WindowPoints :
            FreeInterval(t, t + 1) =>
                Cardinality({k \in DOMAIN response.slots :
                                /\ SlotStart(response.slots[k]) <= t
                                /\ t < SlotEnd(response.slots[k])}) = 1

CandidateSet == {LookupCandidates[n] : n \in DOMAIN LookupCandidates}

\* C6 as amended: every candidate of the working window that no active
\* appointment and (non-emergency) no approved leave overlaps is returned
\* as exactly one slot.
C6_FreeCandidatesReturned ==
    IsLookup =>
        \A c \in CandidateSet :
            FreeInterval(c.start, c.end) => Cardinality(Returned(c)) = 1

\* a non-emergency lookup returned slots while a candidate that is only
\* partly booked was left out
C6_Witness ==
    /\ IsLookup
    /\ ~response.is_emergency
    /\ response.slots # <<>>
    /\ \E c \in CandidateSet :
          /\ Returned(c) = {}
          /\ \E t \in c.start..(c.end - 1) : FreeInterval(t, t + 1)

\* C7: no two slots of a returned list overlap each other.
C7_SlotsDoNotOverlap ==
    IsLookup =>
        \A j \in DOMAIN response.slots : \A k \in DOMAIN response.slots :
            j < k =>
                ~Overlaps(SlotStart(response.slots[j]), SlotEnd(response.slots[j]),
                          SlotStart(response.slots[k]), SlotEnd(response.slots[k]))

\* a lookup answered from two availability windows of the weekday
C7_Witness ==
    /\ IsLookup
    /\ response.branch = "availability"
    /\ Cardinality(LookupWindows) = 2
    /\ \A w \in LookupWindows :
          \E k \in DOMAIN response.slots :
              /\ w.start_time <= SlotStart(response.slots[k])
              /\ SlotEnd(response.slots[k]) <= w.end_time

\* C8: every returned slot has start < end and lies within the working
\* window: 00:00-23:59 for an emergency lookup, 08:00-22:00 or an availability
\* window of the weekday otherwise.
C8_SlotsWithinWindow ==
    IsLookup =>
        \A k \in DOMAIN response.slots :
            LET start == SlotStart(response.slots[k])
                end == SlotEnd(response.slots[k])
            IN /\ start < end
               /\ IF response.is_emergency
                  THEN Time(0, 0) <= start /\ end <= Time(23, 59)
                  ELSE \/ Time(8, 0) <= start /\ end <= Time(22, 0)
                       \/ \E w \in LookupWindows :
                             w.start_time <= start /\ end <= w.end_time

\* the candidate touches an active appointment or a leave that counts
Abuts(c) ==
    \/ \E i \in LookupAppointments :
          \/ appointments[i].end_time = c.start
          \/ appointments[i].start_time = c.end
    \/ /\ ~response.is_emergency
       /\ \E i \in LookupLeaves :
             \/ leave_requests[i].end_time = c.start
             \/ leave_requests[i].start_time = c.end

\* C9: a candidate that an appointment or leave only touches (ends at its
\* start or starts at its end), and that nothing else overlaps, is returned.
C9_AbuttingDoesNotExclude ==
    IsLookup =>
        \A c \in CandidateSet :
            (Abuts(c) /\ FreeInterval(c.start, c.end)) => Returned(c) # {}

\* a slot that starts where an appointment ends and a slot that starts where
\* a leave ends were returned
C9_Witness ==
    /\ IsLookup
    /\ ~response.is_emergency
    /\ \E i \in LookupAppointments : \E k \in DOMAIN response.slots :
          appointments[i].end_time = SlotStart(response.slots[k])
    /\ \E i \in LookupLeaves : \E k \in DOMAIN response.slots :
          leave_requests[i].end_time = SlotStart(response.slots[k])

\* the windows the loops of the lookup partition, with their granularity
LookupPartitions ==
    CASE response.branch = "emergency" ->
             {<<Time(0, 0), Time(23, 59), EmergencyMinutes>>}
      [] response.branch = "availability" ->
             {<<w.start_time, w.end_time, SlotMinutes>> : w \in LookupWindows}
      [] OTHER -> {<<Time(8, 0), Time(22, 0), SlotMinutes>>}

IsPartition(candidates, open, close, minutes) ==
    /\ candidates # <<>>
    /\ candidates[1].start = open
    /\ candidates[Len(candidates)].end = close
    /\ \A n \in DOMAIN candidates :
          /\ candidates[n].start < candidates[n].end
          /\ n < Len(candidates) =>
                /\ candidates[n].end - candidates[n].start = minutes
                /\ candidates[n + 1].start = candidates[n].end
                /\ candidates[n].start < candidates[n + 1].start
          /\ n = Len(candidates) =>
                candidates[n].end - candidates[n].start <= minutes

\* C10: the candidates of every window of a lookup partition it: they start
\* at its open time, each starts where the previous one ended, all have the
\* granularity length except the last, which ends at the close time.
C10_CandidatesPartitionWindow ==
    IsLookup =>
        /\ \A p \in LookupPartitions :
              IsPartition(GenerateSlots(p[1], p[2], p[3]), p[1], p[2], p[3])
        /\ \A n \in DOMAIN LookupCandidates :
              n < Len(LookupCandidates) =>
                  LookupCandidates[n].start < LookupCandidates[n + 1].start

\* a lookup over an availability window returned its shortened last candidate
C10_Witness ==
    /\ IsLookup
    /\ response.branch = "availability"
    /\ \E w \in LookupWindows : \E k \in DOMAIN response.slots :
          /\ SlotEnd(response.slots[k]) = w.end_time
          /\ SlotEnd(response.slots[k]) - SlotStart(response.slots[k]) < SlotMinutes

\* the intervals of the returned slots
ReturnedIntervals ==
    {<<SlotStart(response.slots[k]), SlotEnd(response.slots[k])>> :
        k \in DOMAIN response.slots}

\* the 15-minute candidates of 00:00-23:59 that no active appointment of the
\* doctor and date of the lookup overlaps
FullDaySurvivors ==
    {c \in {GenerateSlots(Time(0, 0), Time(23, 59), EmergencyMinutes)[n] :
               n \in 1..Len(GenerateSlots(Time(0, 0), Time(23, 59), EmergencyMinutes))} :
        \A i \in LookupAppointments :
            ~Overlaps(c.start, c.end, appointments[i].start_time,
                      appointments[i].end_time)}

\* the 30-minute candidates of 08:00-22:00 and of the availability windows of
\* the weekday of the lookup
RegularCandidates ==
    {GenerateSlots(Time(8, 0), Time(22, 0), SlotMinutes)[n] :
        n \in 1..Len(GenerateSlots(Time(8, 0), Time(22, 0), SlotMinutes))}
    \cup {WindowCandidates(OrderedWindows(LookupWindows))[n] :
             n \in 1..Len(WindowCandidates(OrderedWindows(LookupWindows)))}

\* C11: an emergency lookup returns the 15-minute candidates of 00:00-23:59
\* that no active appointment overlaps, whatever the leave; a non-emergency
\* lookup returns 30-minute candidates of 08:00-22:00 or of the availability
\* windows, none of them overlapping an active appointment.
C11_EmergencyOverride ==
    IsLookup =>
        IF response.is_emergency
        THEN ReturnedIntervals = {<<c.start, c.end>> : c \in FullDaySurvivors}
        ELSE /\ ReturnedIntervals \subseteq {<<c.start, c.end>> : c \in RegularCandidates}
             /\ \A k \in DOMAIN response.slots : \A i \in LookupAppointments :
                   ~Overlaps(SlotStart(response.slots[k]), SlotEnd(response.slots[k]),
                             appointments[i].start_time, appointments[i].end_time)

\* C12: an emergency lookup with no surviving candidate returns exactly one
\* slot, from the current time rounded down to a quarter of an hour to 15
\* minutes later, with start < end.
C12_FallbackSlot ==
    (IsLookup /\ response.is_emergency /\ FullDaySurvivors = {}) =>
        /\ Len(response.slots) = 1
        /\ response.now # NoClock
        /\ LET start == Time(response.now[2],
                             (response.now[3] \div EmergencyMinutes) * EmergencyMinutes)
           IN /\ SlotStart(response.slots[1]) = start
              /\ SlotEnd(response.slots[1]) = start + EmergencyMinutes
              /\ SlotStart(response.slots[1]) < SlotEnd(response.slots[1])

\* C13: the slots of a lookup are those the same lookup returns at any other
\* reading of the clock: the current time is no hidden input.
C13_Deterministic ==
    IsLookup =>
        \A clock \in Clocks :
            SlotsGiven(leave_requests, response.doctor_id, response.date,
                       response.is_emergency, clock) = response.slots

\* C14: the start times of the returned slots are strictly increasing.
C14_ChronologicalOrder ==
    IsLookup =>
        \A k \in 1..(Len(response.slots) - 1) :
            SlotStart(response.slots[k]) < SlotStart(response.slots[k + 1])

\* a lookup returned a slot of an earlier availability window before a slot
\* of a later one
C14_Witness ==
    /\ IsLookup
    /\ response.branch = "availability"
    /\ \E v \in LookupWindows : \E w \in LookupWindows :
          /\ v.end_time < w.start_time
          /\ \E j \in DOMAIN response.slots : \E k \in DOMAIN response.slots :
                /\ j < k
                /\ v.start_time <= SlotStart(response.slots[j])
                /\ SlotEnd(response.slots[j]) <= v.end_time
                /\ w.start_time <= SlotStart(response.slots[k])
                /\ SlotEnd(response.slots[k]) <= w.end_time

\* C15: a non-emergency lookup for an existing doctor is answered with
\* status 200 and a list of slots, and the list is empty exactly when every
\* candidate was excluded.
C15_EmptyIsNoError ==
    (/\ response.view = "get_available_slots"
     /\ ~response.is_emergency
     /\ response.doctor_id \in Doctors) =>
        /\ response.status = 200
        /\ response.slots = <<>> <=> \A c \in CandidateSet : Returned(c) = {}

\* a non-emergency lookup over an availability window whose candidates are
\* all booked returned the empty list with status 200
C15_Witness ==
    /\ IsLookup
    /\ ~response.is_emergency
    /\ response.branch = "availability"
    /\ CandidateSet # {}
    /\ response.slots = <<>>

\* C17: every stored appointment and every stored leave request has
\* start_time < end_time.
C17_StoredTimesOrdered ==
    /\ \A i \in DOMAIN appointments :
          appointments[i].start_time < appointments[i].end_time
    /\ \A i \in DOMAIN leave_requests :
          leave_requests[i].start_time < leave_requests[i].end_time

\* a leave submitted as 00:00-00:00 was stored as 00:00-23:59 beside a stored
\* appointment
C17_Witness ==
    /\ response.view = "doctor_leave_request"
    /\ response.status = 302
    /\ appointments # <<>>
    /\ leave_requests # <<>>
    /\ leave_requests[Len(leave_requests)].start_time = Time(0, 0)
    /\ leave_requests[Len(leave_requests)].end_time = Time(23, 59)

\* C18: a step that answers a slot lookup leaves every stored appointment,
\* leave request and availability window as it was.
C18_LookupChangesNothing ==
    [][response'.view = "get_available_slots"
          => UNCHANGED <<appointments, leave_requests, availability>>]_vars

\* a lookup was answered with the fallback slot while an appointment and a
\* leave request were stored
C18_Witness ==
    /\ IsFallback
    /\ appointments # <<>>
    /\ leave_requests # <<>>

\* C20: the label of every slot of an emergency lookup is its start, its end
\* and the suffix " (Emergency)"; the label of every slot of a non-emergency
\* lookup is its start and its end without a suffix.
C20_EmergencyLabel ==
    IsLookup =>
        \A k \in DOMAIN response.slots :
            response.slots[k].display =
                <<response.slots[k].start, response.slots[k].end,
                  IF response.is_emergency THEN " (Emergency)" ELSE "">>

\* the fallback slot was returned with the emergency suffix
C20_Witness ==
    /\ IsFallback
    /\ Len(response.slots) = 1
    /\ response.slots[1].display[3] = " (Emergency)"

Ceil(a, b) == (a + b - 1) \div b

\* the candidates start strictly later one after the other, and the start of
\* the next iteration lies after the start of the last candidate
LoopAdvances ==
    /\ \A n \in 1..(Len(loop.candidates) - 1) :
          loop.candidates[n].start < loop.candidates[n + 1].start
    /\ loop.candidates # <<>> =>
          loop.candidates[Len(loop.candidates)].start < loop.slot_start

\* C19: every iteration of a generation loop strictly advances the candidate
\* start, the number of candidates never exceeds
\* ceil((close - open) / granularity), the loop ends, and it has then visited
\* the candidates of GenerateSlots.
C19_LoopTerminates ==
    /\ [](/\ LoopAdvances
          /\ Len(loop.candidates)
                 <= Ceil(loop.end_datetime - loop.open, loop.minutes)
          /\ loop.done =>
                loop.candidates
                    = GenerateSlots(loop.open, loop.end_datetime, loop.minutes))
    /\ <>(loop.done)

\* the loop over 00:00-23:59 ended after 96 candidates, the last one cut
C19_Witness ==
    /\ loop.done
    /\ loop.minutes = EmergencyMinutes
    /\ Len(loop.candidates) = 96
    /\ loop.candidates[96].end - loop.candidates[96].start < EmergencyMinutes

(***************************************************************************)
(* Properties of Appointment.save                                           *)
(***************************************************************************)
\* an APPROVED leave of the doctor covers the date and overlaps the interval
OnApprovedLeave(doctor, date, start_time, end_time) ==
    \E i \in DOMAIN leave_requests :
        /\ leave_requests[i].doctor = doctor
        /\ leave_requests[i].status = APPROVED
        /\ leave_requests[i].start_date <= date
        /\ leave_requests[i].end_date >= date
        /\ Overlaps(start_time, end_time,
                    leave_requests[i].start_time, leave_requests[i].end_time)

\* a SCHEDULED or CONFIRMED appointment other than `id`, of the doctor or of
\* the patient on the date, overlaps the interval
Taken(id, patient, doctor, date, start_time, end_time) ==
    \E i \in DOMAIN appointments :
        /\ i # id
        /\ appointments[i].status \in ActiveStatuses
        /\ appointments[i].date = date
        /\ appointments[i].doctor = doctor \/ appointments[i].patient = patient
        /\ Overlaps(start_time, end_time,
                    appointments[i].start_time, appointments[i].end_time)

\* C21: a step that saves a non-emergency appointment overlapping an APPROVED
\* leave of its doctor on its date stores nothing, and a step that saves an
\* emergency appointment with start before end that overlaps no active
\* appointment of its doctor or patient stores it, whatever the leave, the
\* availability windows and the hours.
C21_LeaveBlocksUnlessEmergency ==
    [][/\ \A doctor \in Doctors, t \in SlotsBookTimes :
             book_appointment(1, doctor, 1, t[1], t[2], REGULAR, t[3]) =>
                 /\ (~t[3] /\ OnApprovedLeave(doctor, 1, t[1], t[2]))
                        => (appointments' = appointments /\ response'.status = 200)
                 /\ (t[3] /\ t[1] < t[2] /\ ~Taken(0, 1, doctor, 1, t[1], t[2]))
                        => Len(appointments') = Len(appointments) + 1
       /\ \A pk \in DOMAIN appointments :
             LET self == appointments[pk]
                 emergency == self.appointment_type = EMERGENCY \/ self.is_emergency
             IN cancel_appointment(pk) =>
                 /\ (~emergency /\ OnApprovedLeave(self.doctor, self.date,
                                                   self.start_time, self.end_time))
                        => (appointments' = appointments /\ response'.status = 500)
                 /\ (emergency /\ ~Taken(pk, self.patient, self.doctor, self.date,
                                         self.start_time, self.end_time))
                        => appointments'[pk].status = CANCELLED
      ]_vars

\* an emergency appointment outside the standard hours was stored for a doctor
\* who is on APPROVED leave at that time
C21_Witness ==
    /\ response.view = "book_appointment"
    /\ response.status = 302
    /\ \E i \in DOMAIN appointments :
          /\ appointments[i].is_emergency
          /\ appointments[i].start_time < standard_start
          /\ OnApprovedLeave(appointments[i].doctor, appointments[i].date,
                             appointments[i].start_time, appointments[i].end_time)

\* the non-emergency appointment a patient would book from a returned slot
SlotAppointment(patient, slot) ==
    [patient |-> patient, doctor |-> response.doctor_id, date |-> response.date,
     start_time |-> SlotStart(slot), end_time |-> SlotEnd(slot),
     appointment_type |-> REGULAR, is_emergency |-> FALSE, status |-> SCHEDULED]

\* C22: every slot returned by a non-emergency lookup passes Appointment.clean
\* as a non-emergency appointment of that doctor and date, for every patient
\* who has no active appointment overlapping it.
C22_ReturnedSlotsBookable ==
    (IsLookup /\ ~response.is_emergency) =>
        \A k \in DOMAIN response.slots : \A patient \in Patients :
            LET self == SlotAppointment(patient, response.slots[k])
            IN AppointmentPatientFree(self, 0) => AppointmentClean(self, 0)

\* C23: no SCHEDULED or CONFIRMED non-emergency appointment overlaps an
\* APPROVED leave of its doctor whose dates cover the appointment's date.
C23_NoActiveAppointmentOnLeave ==
    \A i \in DOMAIN appointments :
        (/\ appointments[i].status \in ActiveStatuses
         /\ appointments[i].appointment_type # EMERGENCY
         /\ ~appointments[i].is_emergency)
        => ~OnApprovedLeave(appointments[i].doctor, appointments[i].date,
                            appointments[i].start_time, appointments[i].end_time)

\* C24: a step that serves a POST to cancel_appointment for a stored
\* appointment leaves that appointment with status CANCELLED.
C24_CancelAlwaysCancels ==
    [][\A pk \in DOMAIN appointments :
          cancel_appointment(pk) => appointments'[pk].status = CANCELLED]_vars

\* C25: of the appointments stored by book_appointment requests running at
\* the same time, no two SCHEDULED or CONFIRMED ones of the same doctor and
\* date overlap.
C25_AtMostOneStored ==
    \A i \in DOMAIN appointments : \A j \in DOMAIN appointments :
        (/\ i < j
         /\ appointments[i].doctor = appointments[j].doctor
         /\ appointments[i].date = appointments[j].date
         /\ appointments[i].status \in ActiveStatuses
         /\ appointments[j].status \in ActiveStatuses)
        => \/ appointments[i].end_time <= appointments[j].start_time
           \/ appointments[j].end_time <= appointments[i].start_time

(***************************************************************************)
(* Properties of the leave requests                                         *)
(***************************************************************************)
\* C26: a step changes the status of a stored leave request only from
\* PENDING: review_leave_request to APPROVED or REJECTED, cancel_leave_request
\* to CANCELLED and only for the doctor who made the request; the status of
\* an APPROVED, REJECTED or CANCELLED request never changes.
C26_LeaveStatusMovesOnce ==
    [][\A pk \in DOMAIN leave_requests :
          leave_requests'[pk].status # leave_requests[pk].status =>
              /\ leave_requests[pk].status = PENDING
              /\ \/ /\ response'.view = "review_leave_request"
                    /\ leave_requests'[pk].status \in {APPROVED, REJECTED}
                 \/ /\ response'.view = "cancel_leave_request"
                    /\ leave_requests'[pk].status = CANCELLED
                    /\ \A user \in Doctors :
                          cancel_leave_request(user, pk)
                              => user = leave_requests[pk].doctor
      ]_vars

\* the doctor's cancellation was answered with a redirect while every stored
\* leave request was already APPROVED or REJECTED
C26_Witness ==
    /\ response.view = "cancel_leave_request"
    /\ response.status = 302
    /\ leave_requests # <<>>
    /\ \A i \in DOMAIN leave_requests :
          leave_requests[i].status \in {APPROVED, REJECTED}

(***************************************************************************)
(* Properties of the admissions                                             *)
(***************************************************************************)
\* the admissions in the bed that have no discharge date
ActiveAdmissions(bed) ==
    {i \in DOMAIN admissions :
        admissions[i].bed = bed /\ admissions[i].discharge_date = NoDate}

\* C27: every bed has at most one admission without discharge date, and
\* Bed.is_occupied is true exactly when it has one.
C27_BedOccupancy ==
    \A bed \in Beds :
        /\ Cardinality(ActiveAdmissions(bed)) <= 1
        /\ beds[bed] <=> ActiveAdmissions(bed) # {}

\* a bed that was freed by a discharge is occupied by a later admission
C27_Witness ==
    \E bed \in Beds : \E i \in DOMAIN admissions : \E j \in DOMAIN admissions :
        /\ i < j
        /\ admissions[i].bed = bed
        /\ admissions[j].bed = bed
        /\ admissions[i].discharge_date # NoDate
        /\ admissions[j].discharge_date = NoDate
        /\ beds[bed]

\* C28: the status of an admission request changes only from PENDING to
\* APPROVED or REJECTED and from APPROVED to COMPLETED, so a REJECTED or
\* COMPLETED request keeps its status, and no admission is created for a
\* request that already has one.
C28_RequestLifecycle ==
    [][\A pk \in DOMAIN admission_requests :
          /\ admission_requests'[pk].status # admission_requests[pk].status =>
                \/ /\ admission_requests[pk].status = PENDING
                   /\ admission_requests'[pk].status \in {APPROVED, REJECTED}
                \/ /\ admission_requests[pk].status = APPROVED
                   /\ admission_requests'[pk].status = COMPLETED
          /\ (/\ Len(admissions') > Len(admissions)
              /\ admissions'[Len(admissions')].created_for = pk)
                => ~\E i \in DOMAIN admissions : admissions[i].created_for = pk
      ]_vars

(***************************************************************************)
(* Properties of the purchase orders                                        *)
(***************************************************************************)
\* C30: the status of a purchase order changes only from PENDING, to
\* RECEIVED or to CANCELLED, so a RECEIVED order is never cancelled and a
\* CANCELLED order is never received; and the stock changes only in a step
\* that moves one PENDING order to RECEIVED, by the received quantities
\* stored on the items of that order.
C30_StockChangesOncePerOrder ==
    [][/\ \A pk \in DOMAIN purchases :
             purchases'[pk].status # purchases[pk].status =>
                 /\ purchases[pk].status = PENDING
                 /\ purchases'[pk].status \in {RECEIVED, CANCELLED}
       /\ stock_quantity' # stock_quantity =>
             \E pk \in DOMAIN purchases :
                 /\ purchases[pk].status = PENDING
                 /\ purchases'[pk].status = RECEIVED
                 /\ \A m \in Medicines :
                       stock_quantity'[m] - stock_quantity[m] =
                           ReceivedQuantity(purchases'[pk].items, m,
                                            Len(purchases'[pk].items))
      ]_vars

\* a cancellation was asked for while the only stored orders were RECEIVED
\* ones whose quantities are in stock
C30_Witness ==
    /\ response.view = "cancel_purchase"
    /\ purchases # <<>>
    /\ \A pk \in DOMAIN purchases : purchases[pk].status = RECEIVED
    /\ \E m \in Medicines : stock_quantity[m] > 0

====
